---- MODULE Spec2Model ----
(***************************************************************************)
(* The multi-sequence SLAM driver of src/src/slam.cpp: main() as the       *)
(* registration thread, stepping from one program point to the next, and   *)
(* the viz3d GUI thread that owns ControlSlamWindow::pause_button.         *)
(*                                                                         *)
(* The timings main() only prints are not part of the state: the          *)
(* *_elapsed_ms doubles and all_seq_num_frames. No branch of main() reads  *)
(* them. Doubles are kept as exact quotients of integers.                  *)
(***************************************************************************)
EXTENDS Integers, Sequences, FiniteSets, TLC

\* Bounds of the model.
MaxSequences == 2       \* sequences get_sequences() may find on disk
MaxFrames == 2          \* frames of one dataset sequence, ground-truth poses, max_frames
MaxAttempts == 1        \* summary.number_of_attempts of one RegisterFrame call
MaxError == 2           \* error values ct_icp::eval may give a sequence

\* The build the driver is compiled in: with the viz3d blocks (#ifdef).
CT_ICP_WITH_VIZ == TRUE

VARIABLES
    options,                  \* SLAMOptions, fixed after read_arguments
    sequences,                \* vector of sequences (get_sequences, then the selection)
    num_sequences,
    pc,                       \* program point of main()
    exit_code,                \* -1 while the process runs, else its exit code
    i,                        \* index of the sequence loop
    it_len, it_pos,           \* the dataset iterator: number of frames, next frame
    frame,                    \* the frame NextUnfilteredFrame returned
    frame_id,
    summary,                  \* RegistrationSummary of the last RegisterFrame
    odometry,                 \* the trajectory held by ct_icp_odometry
    avg_number_of_attempts,   \* a double, as the quotient num / den
    trajectory,               \* local copy of ct_icp_odometry.Trajectory()
    sequence_name_to_errors,
    metrics_file,             \* what the last SaveMetrics wrote
    dataset_with_gt, nb_seq_with_gt,
    average_rpe_on_seq,       \* the sum of the sequences' mean RPE
    report,                   \* the numbers of the final summary, as quotients
    printed,                  \* the parts of the final summary that were printed
    gui_thread,               \* "null", "running" or "joined"
    pause_button,             \* ControlSlamWindow::pause_button as the GUI thread wrote it
    pause_seen,               \* the value a load of pause_button by main() returns
    \* history of the run, read by the properties only
    catalog,                  \* what get_sequences() returned
    eval_values,              \* the error values ct_icp::eval yields on this run's data
    evals,                    \* the evaluations so far: sequence name and seq_errors
    gate_open,                \* the gate read after the last RegisterFrame said "continue"
    reg_calls, succ_calls,    \* RegisterFrame calls / successes of the current sequence
    seq_failed,               \* a RegisterFrame of the current sequence failed
    regs_in_pause,            \* RegisterFrame calls begun since main() last saw pause set
    save_result,              \* "none", "ok" or "failed": the pose save of the current sequence
    last,                     \* record of the sequence whose body ended last
    done_names, gt_names,     \* names of the sequences whose body ended / with ground truth
    zero_division             \* line 327 divided by frame_id = 0

vars == <<options, sequences, num_sequences, pc, exit_code, i, it_len, it_pos, frame,
          frame_id, summary, odometry, avg_number_of_attempts, trajectory,
          sequence_name_to_errors, metrics_file, dataset_with_gt, nb_seq_with_gt,
          average_rpe_on_seq, report, printed, gui_thread, pause_button, pause_seen,
          catalog, eval_values, evals, gate_open, reg_calls, succ_calls, seq_failed, regs_in_pause, save_result, last, done_names,
          gt_names, zero_division>>

----------------------------------------------------------------------------
\* Helpers

\* The sum of f[x] over the x of S.
RECURSIVE SumOf(_, _)
SumOf(f, S) ==
    IF S = {} THEN 0
    ELSE LET x == CHOOSE y \in S : TRUE IN f[x] + SumOf(f, S \ {x})

\* sequence_name(options, sequence_id): the name of a sequence, from its id.
sequence_name(sequence_id) == ToString(sequence_id)

\* One entry of the catalog get_sequences() returns.
SequenceInfo(sequence_id) ==
    [sequence_id |-> sequence_id, sequence_name |-> sequence_name(sequence_id)]

SequenceIds == 1 .. MaxSequences

\* The sequence with the ids of the set S, in increasing order.
RECURSIVE InOrder(_)
InOrder(S) ==
    IF S = {} THEN <<>>
    ELSE LET m == CHOOSE x \in S : \A y \in S : x <= y
         IN  <<SequenceInfo(m)>> \o InOrder(S \ {m})

\* The catalogs get_sequences() may return: the sequences found on disk, each once.
Catalogs == { InOrder(S) : S \in SUBSET SequenceIds }

\* The catalogs in which a sequence may come more than once, in the order of the ids.
CatalogsWithRepeats ==
    { c \in UNION { [1 .. n -> { SequenceInfo(s) : s \in SequenceIds }] :
                      n \in 0 .. MaxSequences } :
        \A k \in 1 .. Len(c) - 1 : c[k].sequence_id <= c[k + 1].sequence_id }

\* transform_trajectory_frame: one absolute pose per frame of the trajectory.
transform_trajectory_frame(traj) == [k \in 1 .. Len(traj) |-> <<"est", traj[k]>>]

\* load_ground_truth: the n ground-truth poses of a sequence.
load_ground_truth(n) == [k \in 1 .. n |-> <<"gt", k - 1>>]

\* The values an Eigen::Matrix4d that resize() default-constructs may hold.
Uninitialized == { <<"uninit", 0>>, <<"uninit", 1>> }

\* Mutant: the vector keeps its last n elements.
resize_FromEnd(v, n, fill) ==
    IF n <= Len(v) THEN SubSeq(v, Len(v) - n + 1, Len(v))
    ELSE v \o [k \in 1 .. n - Len(v) |-> fill]

\* std::vector::resize(n): the first n elements, or the vector and n - size new ones.
resize(v, n, fill) ==
    IF n <= Len(v) THEN SubSeq(v, 1, n) ELSE v \o [k \in 1 .. n - Len(v) |-> fill]

\* Line 363.
valid_trajectory(ground_truth_poses, trajectory_absolute_poses) ==
    Len(ground_truth_poses) = Len(trajectory_absolute_poses)

\* ct_icp::eval: the seq_errors an estimate may get: the number of poses it scores, its
\* mean RPE, and tab_errors with the translation and rotation error of each segment,
\* one segment per scored pose. The errors depend on the data, so any value of
\* eval_values may come out.
eval(ground_truth_poses, trajectory_absolute_poses) ==
    { [num_poses |-> Len(trajectory_absolute_poses),
       mean_rpe |-> e,
       tab_errors |-> [k \in 1 .. Len(trajectory_absolute_poses) |->
                          [t_err |-> e, r_err |-> e]]] : e \in eval_values }

\* Mutant: the metrics are not written when a sequence ends.
SaveMetrics_NotWritten(errors, valid) == metrics_file

\* ct_icp::SaveMetrics, lines 391-392: the file holds the mapping and the flag.
SaveMetrics(errors, valid) ==
    [written |-> TRUE, errors |-> errors, valid_trajectory |-> valid]

\* The validity flag the metrics file shows for a sequence: SaveMetrics gets one flag
\* with the mapping (lines 391-392) and marks every sequence it writes with it.
ValidityFlag(file, name) == file.valid_trajectory

\* The sum of one error over the segments of a sequence, lines 402-405.
RECURSIVE TabSum(_, _)
TabSum(tab_errors, err) ==
    IF tab_errors = <<>> THEN 0
    ELSE (IF err = "t_err" THEN tab_errors[1].t_err ELSE tab_errors[1].r_err)
            + TabSum(Tail(tab_errors), err)

\* Lines 398-407: the loop over the entries of the mapping, which adds up the errors
\* of all segments and counts the segments.
RECURSIVE all_seq_rpe(_, _, _)
all_seq_rpe(errors, names, err) ==
    IF names = {} THEN 0
    ELSE LET name == CHOOSE x \in names : TRUE
         IN  TabSum(errors[name].tab_errors, err) + all_seq_rpe(errors, names \ {name}, err)

RECURSIVE num_total_errors(_, _)
num_total_errors(errors, names) ==
    IF names = {} THEN 0
    ELSE LET name == CHOOSE x \in names : TRUE
         IN  Len(errors[name].tab_errors) + num_total_errors(errors, names \ {name})

\* Mutant: the KITTI metric is the mean of the sequences' mean errors.
KittiMetric_MeanOfMeans(errors) ==
    [t |-> [num |-> SumOf([name \in DOMAIN errors |-> errors[name].mean_rpe],
                          DOMAIN errors) * 100,
            den |-> Cardinality(DOMAIN errors)],
     r |-> [num |-> SumOf([name \in DOMAIN errors |-> errors[name].mean_rpe],
                          DOMAIN errors),
            den |-> Cardinality(DOMAIN errors)]]

\* Lines 408-409: the KITTI metric, translation in percent and rotation in radians (the
\* print turns it to degrees); a quotient is kept as numerator and denominator.
KittiMetric(errors) ==
    [t |-> [num |-> all_seq_rpe(errors, DOMAIN errors, "t_err") * 100,
            den |-> num_total_errors(errors, DOMAIN errors)],
     r |-> [num |-> all_seq_rpe(errors, DOMAIN errors, "r_err"),
            den |-> num_total_errors(errors, DOMAIN errors)]]

\* Mutant: the sum of the mean RPE is divided by the number of sequences of the run.
AverageRpe_OverAllSequences == [num |-> average_rpe_on_seq, den |-> num_sequences]

\* Line 411: the average RPE over the sequences.
AverageRpe == [num |-> average_rpe_on_seq, den |-> nb_seq_with_gt]

\* Mutant: the three lines of the summary are printed in every run.
SummaryLines_Always == {"kitti", "rpe", "time"}

\* Lines 397-416: the lines of the final summary. The KITTI metric and the average RPE
\* are inside the test of dataset_with_gt, the average registration time is after it.
SummaryLines == IF dataset_with_gt THEN {"kitti", "rpe", "time"} ELSE {"time"}

\* Odometry::RegisterFrame on the trajectory: a frame joins it when it is registered.
RegisterFrame(traj, frm, success) == IF success THEN Append(traj, frm) ELSE traj

\* Mutant: one Odometry serves every sequence.
NewOdometry_Reused == odometry

\* Line 243: the Odometry built for a sequence starts with no trajectory.
NewOdometry == <<>>

\* The values of options.sequence: the name of a sequence or a name no sequence has.
SequenceOptions == { sequence_name(s) : s \in 1 .. MaxSequences + 1 }

\* The runs' options. options.sequence is read only when all_sequences is false
\* (line 200), so with all_sequences it keeps its default, the empty string (line 76).
\* A cap of MaxFrames frames never ends a loop over at most MaxFrames frames, as -1.
Options ==
    { o \in [with_viz3d : BOOLEAN, suspend_on_failure : BOOLEAN,
             save_trajectory : BOOLEAN, all_sequences : BOOLEAN,
             sequence : SequenceOptions \cup {""}, start_index : 0 .. 1,
             max_frames : -1 .. MaxFrames - 1] :
        o.all_sequences <=> o.sequence = "" }

NoSummary == [success |-> TRUE, number_of_attempts |-> 0]
NoReport == [kitti |-> [t |-> [num |-> 0, den |-> 1], r |-> [num |-> 0, den |-> 1]],
             rpe |-> [num |-> 0, den |-> 1]]
NoRecord == [name |-> "", calls |-> 0, succ |-> 0, failed |-> FALSE, trajectory |-> <<>>,
             save |-> "none", has_gt |-> FALSE, loaded |-> <<>>, eval_gt |-> <<>>,
             eval_est |-> <<>>, valid |-> FALSE]
EmptyMap == [n \in {} |-> 0]

\* options.with_viz3d, in a build that has the viz3d blocks.
WithViz == CT_ICP_WITH_VIZ /\ options.with_viz3d

\* Lines 202-209: the index of the first sequence named `name`, -1 if there is none.
seq_idx(seqs, name) ==
    IF \E idx \in 0 .. Len(seqs) - 1 : seqs[idx + 1].sequence_name = name
    THEN CHOOSE idx \in 0 .. Len(seqs) - 1 :
            /\ seqs[idx + 1].sequence_name = name
            /\ \A j \in 0 .. idx - 1 : seqs[j + 1].sequence_name # name
    ELSE -1

\* Mutant: the selected sequence is moved to the front, the vector is not resized.
Selected_NoResize(seqs, idx) == [seqs EXCEPT ![1] = seqs[idx + 1]]

\* Lines 216-218: the vector of sequences holds the selected sequence alone.
Selected(seqs, idx) == <<seqs[idx + 1]>>

\* Mutant: the gate lets the loop run while the pause is set.
ContinueSLAM_Negated == pause_seen

\* ControlSlamWindow::ContinueSLAM, on the value main()'s load of pause_button returns.
ContinueSLAM == ~pause_seen

\* Iterator::HasNext.
HasNext == it_pos < it_len

\* Mutant: the cap is compared with <=.
LoopCondition_OffByOne ==
    HasNext /\ (options.max_frames < 0 \/ frame_id <= options.max_frames)

\* The condition of the frame loop, line 255.
LoopCondition == HasNext /\ (options.max_frames < 0 \/ frame_id < options.max_frames)

\* Mutants: the failure policy ignores suspend_on_failure.
FailurePolicy_NeverExit == "break"
FailurePolicy_AlwaysExit == "exit"

\* Lines 313-321: what a failed registration does to the run.
FailurePolicy == IF options.suspend_on_failure THEN "exit" ELSE "break"

\* Mutants: the policy on a failed save ignores suspend_on_failure.
SaveFailurePolicy_NeverExit == "continue"
SaveFailurePolicy_AlwaysExit == "exit"

\* Lines 343-349: what a failed save of the poses does to the run.
SaveFailurePolicy == IF options.suspend_on_failure THEN "exit" ELSE "continue"

\* Mutant: the abort on a failed registration does not join the GUI thread.
JoinOnFrameFailure_Never == FALSE

\* Lines 315 and 345: whether the abort joins the GUI thread first.
JoinOnFrameFailure == WithViz
JoinOnSaveFailure == gui_thread # "null"

\* Line 419.
JoinAtEnd == gui_thread # "null"

\* Mutant: SetInitFrame is called in every mode.
InitFrame_AllModes == IF options.start_index > 0 THEN options.start_index ELSE 0

\* Lines 251-254: the frame the iterator of a sequence starts at.
InitFrame ==
    IF ~options.all_sequences /\ options.start_index > 0 THEN options.start_index ELSE 0

\* Mutant: a failed frame goes to the failure policy at once.
VizBlock_SkipOnFailure(success) == IF WithViz /\ success THEN "publish" ELSE "check"

\* Lines 271-306: with the viz3d blocks a frame is published and the gate is read
\* before line 309 looks at the summary.
VizBlock(success) == IF WithViz THEN "publish" ELSE "check"

\* Mutant: the loop steps over a sequence.
NextSequence_Skip == i + 2

\* Line 240: ++i.
NextSequence == i + 1

\* The entry of sequences[i].
CurrentName == sequence_name(sequences[i + 1].sequence_id)

----------------------------------------------------------------------------
\* The state main() starts in, but for its inputs.
Start ==
    /\ catalog = sequences
    /\ num_sequences = 0
    /\ pc = "select"
    /\ exit_code = -1
    /\ i = 0
    /\ it_len = 0 /\ it_pos = 0
    /\ frame = 0
    /\ frame_id = 0
    /\ summary = NoSummary
    /\ odometry = <<>>
    /\ avg_number_of_attempts = [num |-> 0, den |-> 1]
    /\ trajectory = <<>>
    /\ sequence_name_to_errors = EmptyMap
    /\ metrics_file = [written |-> FALSE, errors |-> EmptyMap, valid_trajectory |-> FALSE]
    /\ dataset_with_gt = FALSE
    /\ nb_seq_with_gt = 0
    /\ average_rpe_on_seq = 0
    /\ report = NoReport
    /\ evals = <<>>
    /\ gate_open = FALSE
    /\ printed = {}
    /\ gui_thread = "null"
    /\ pause_button = FALSE
    /\ pause_seen = FALSE
    /\ reg_calls = 0 /\ succ_calls = 0
    /\ seq_failed = FALSE
    /\ regs_in_pause = 0
    /\ save_result = "none"
    /\ last = NoRecord
    /\ done_names = {}
    /\ gt_names = {}
    /\ zero_division = FALSE

\* Every option, with or without the GUI thread, on a catalog that holds each sequence
\* once and on data that give every evaluation the same errors.
Init ==
    /\ options \in Options
    /\ sequences \in Catalogs
    /\ eval_values = {1}
    /\ Start

\* The runs that go through every sequence they select, whatever its frames do: no GUI
\* thread, no abort on a failure, no cap on the frames, no pose files. They run on
\* catalogs that may hold a sequence twice and on data that give the evaluations
\* different errors.
InitMetrics ==
    /\ options \in { o \in Options : /\ ~o.with_viz3d
                                     /\ ~o.suspend_on_failure
                                     /\ ~o.save_trajectory
                                     /\ o.start_index = 0
                                     /\ o.max_frames = -1 }
    /\ sequences \in CatalogsWithRepeats
    /\ eval_values = 1 .. MaxError
    /\ Start

----------------------------------------------------------------------------
\* The registration thread: main()

\* exit(code) and return code from main().
Exit(code) == pc' = "exited" /\ exit_code' = code

\* thread::join: main() waits for the GUI thread's main loop to return (the window is
\* closed), which ends the GUI thread's steps.
Join == gui_thread = "running" /\ gui_thread' = "joined"

\* The locals of the frame loop's body (frame, summary) end with the iteration.
EndOfIteration == frame' = 0 /\ summary' = NoSummary

\* The locals of the sequence loop's body end with it, line 395; then ++i. The next
\* body builds its Odometry anew (line 243).
EndOfBody ==
    /\ it_len' = 0
    /\ it_pos' = 0
    /\ frame_id' = 0
    /\ avg_number_of_attempts' = [num |-> 0, den |-> 1]
    /\ trajectory' = <<>>
    /\ i' = NextSequence
    /\ pc' = "for"

\* Lines 198-220: the catalog, and the selection of options.sequence.
SelectSequences ==
    /\ pc = "select"
    /\ IF ~options.all_sequences
       THEN IF seq_idx(sequences, options.sequence) = -1
            THEN /\ Exit(1)
                 /\ UNCHANGED <<sequences, num_sequences>>
            ELSE /\ sequences' = Selected(sequences, seq_idx(sequences, options.sequence))
                 /\ num_sequences' = Len(sequences')
                 /\ pc' = "launch_gui"
                 /\ UNCHANGED exit_code
       ELSE /\ num_sequences' = Len(sequences)
            /\ pc' = "launch_gui"
            /\ UNCHANGED <<sequences, exit_code>>
    /\ UNCHANGED <<options, i, it_len, it_pos, frame, frame_id, summary, odometry,
                 avg_number_of_attempts, trajectory, sequence_name_to_errors,
                 metrics_file, dataset_with_gt, nb_seq_with_gt, average_rpe_on_seq,
                 report, printed, gui_thread, pause_button, pause_seen, catalog,
                 eval_values, evals, gate_open, reg_calls, succ_calls, seq_failed,
                 regs_in_pause, save_result, last, done_names, gt_names,
                 zero_division>>

\* Lines 222-231: the GUI thread and the control window.
LaunchGui ==
    /\ pc = "launch_gui"
    /\ gui_thread' = IF WithViz THEN "running" ELSE gui_thread
    /\ pc' = "for"
    /\ UNCHANGED <<options, sequences, num_sequences, exit_code, i, it_len, it_pos, frame,
                 frame_id, summary, odometry, avg_number_of_attempts, trajectory,
                 sequence_name_to_errors, metrics_file, dataset_with_gt,
                 nb_seq_with_gt, average_rpe_on_seq, report, printed, pause_button,
                 pause_seen, catalog, eval_values, evals, gate_open, reg_calls,
                 succ_calls, seq_failed, regs_in_pause, save_result, last,
                 done_names, gt_names, zero_division>>

\* Lines 240-254: the sequence loop enters its body: odometry, iterator, start frame.
BeginSequence ==
    /\ pc = "for"
    /\ i < num_sequences
    /\ \E n \in 0 .. MaxFrames : it_len' = n
    /\ it_pos' = InitFrame
    /\ odometry' = NewOdometry
    /\ avg_number_of_attempts' = [num |-> 0, den |-> 1]
    /\ frame_id' = 0
    /\ reg_calls' = 0
    /\ succ_calls' = 0
    /\ seq_failed' = FALSE
    /\ save_result' = "none"
    /\ gate_open' = FALSE
    /\ last' = NoRecord
    /\ pc' = "while"
    /\ UNCHANGED <<options, sequences, num_sequences, exit_code, i, frame, summary,
                 trajectory, sequence_name_to_errors, metrics_file, dataset_with_gt,
                 nb_seq_with_gt, average_rpe_on_seq, report, printed, gui_thread,
                 pause_button, pause_seen, catalog, eval_values, evals,
                 regs_in_pause, done_names, gt_names, zero_division>>

\* Line 255: the test of the frame loop.
WhileTest ==
    /\ pc = "while"
    /\ pc' = IF LoopCondition THEN "acquire" ELSE "average"
    /\ UNCHANGED <<options, sequences, num_sequences, exit_code, i, it_len, it_pos, frame,
                 frame_id, summary, odometry, avg_number_of_attempts, trajectory,
                 sequence_name_to_errors, metrics_file, dataset_with_gt,
                 nb_seq_with_gt, average_rpe_on_seq, report, printed, gui_thread,
                 pause_button, pause_seen, catalog, eval_values, evals, gate_open,
                 reg_calls, succ_calls, seq_failed, regs_in_pause, save_result,
                 last, done_names, gt_names, zero_division>>

\* Lines 256-259: NextUnfilteredFrame.
Acquire ==
    /\ pc = "acquire"
    /\ frame' = it_pos
    /\ it_pos' = it_pos + 1
    /\ pc' = "register"
    /\ UNCHANGED <<options, sequences, num_sequences, exit_code, i, it_len, frame_id,
                 summary, odometry, avg_number_of_attempts, trajectory,
                 sequence_name_to_errors, metrics_file, dataset_with_gt,
                 nb_seq_with_gt, average_rpe_on_seq, report, printed, gui_thread,
                 pause_button, pause_seen, catalog, eval_values, evals, gate_open,
                 reg_calls, succ_calls, seq_failed, regs_in_pause, save_result,
                 last, done_names, gt_names, zero_division>>

\* Lines 261-269 and the test of line 272: RegisterFrame and the attempts it took.
Register ==
    /\ pc = "register"
    /\ \E success \in BOOLEAN, number_of_attempts \in 1 .. MaxAttempts :
          /\ summary' = [success |-> success, number_of_attempts |-> number_of_attempts]
          /\ odometry' = RegisterFrame(odometry, frame, success)
          /\ avg_number_of_attempts' =
                [avg_number_of_attempts EXCEPT !.num = @ + number_of_attempts]
          /\ succ_calls' = IF success THEN succ_calls + 1 ELSE succ_calls
          /\ seq_failed' = (seq_failed \/ ~success)
    /\ reg_calls' = reg_calls + 1
    /\ regs_in_pause' = IF pause_seen THEN regs_in_pause + 1 ELSE 0
    /\ gate_open' = FALSE
    /\ pc' = VizBlock(summary'.success)
    /\ UNCHANGED <<options, sequences, num_sequences, exit_code, i, it_len, it_pos, frame,
                 frame_id, trajectory, sequence_name_to_errors, metrics_file,
                 dataset_with_gt, nb_seq_with_gt, average_rpe_on_seq, report,
                 printed, gui_thread, pause_button, pause_seen, catalog,
                 eval_values, evals, save_result, last, done_names, gt_names,
                 zero_division>>

\* Lines 273-301: the camera pose and the models handed to the viz3d engine, which
\* main() never reads back.
PublishViz ==
    /\ pc = "publish"
    /\ pc' = "gate"
    /\ UNCHANGED <<options, sequences, num_sequences, exit_code, i, it_len, it_pos, frame,
                 frame_id, summary, odometry, avg_number_of_attempts, trajectory,
                 sequence_name_to_errors, metrics_file, dataset_with_gt,
                 nb_seq_with_gt, average_rpe_on_seq, report, printed, gui_thread,
                 pause_button, pause_seen, catalog, eval_values, evals, gate_open,
                 reg_calls, succ_calls, seq_failed, regs_in_pause, save_result,
                 last, done_names, gt_names, zero_division>>

\* Lines 302-303: one read of the gate.
GateRead ==
    /\ pc = "gate"
    /\ pc' = IF ContinueSLAM THEN "check" ELSE "sleep"
    /\ gate_open' = ContinueSLAM
    /\ UNCHANGED <<options, sequences, num_sequences, exit_code, i, it_len, it_pos, frame,
                 frame_id, summary, odometry, avg_number_of_attempts, trajectory,
                 sequence_name_to_errors, metrics_file, dataset_with_gt,
                 nb_seq_with_gt, average_rpe_on_seq, report, printed, gui_thread,
                 pause_button, pause_seen, catalog, eval_values, evals, reg_calls,
                 succ_calls, seq_failed, regs_in_pause, save_result, last,
                 done_names, gt_names, zero_division>>

\* Line 304: the 10 ms sleep between two reads of the gate.
GateSleep ==
    /\ pc = "sleep"
    /\ pc' = "gate"
    /\ UNCHANGED <<options, sequences, num_sequences, exit_code, i, it_len, it_pos, frame,
                 frame_id, summary, odometry, avg_number_of_attempts, trajectory,
                 sequence_name_to_errors, metrics_file, dataset_with_gt,
                 nb_seq_with_gt, average_rpe_on_seq, report, printed, gui_thread,
                 pause_button, pause_seen, catalog, eval_values, evals, gate_open,
                 reg_calls, succ_calls, seq_failed, regs_in_pause, save_result,
                 last, done_names, gt_names, zero_division>>

\* Lines 309-324: the failure policy, or the frame is counted.
CheckFailure ==
    /\ pc = "check"
    /\ IF ~summary.success
       THEN /\ pc' = IF FailurePolicy = "exit" THEN "abort_frame" ELSE "average"
            /\ UNCHANGED frame_id
       ELSE /\ frame_id' = frame_id + 1
            /\ pc' = "while"
    /\ EndOfIteration
    /\ UNCHANGED <<options, sequences, num_sequences, exit_code, i, it_len, it_pos,
                 odometry, avg_number_of_attempts, trajectory,
                 sequence_name_to_errors, metrics_file, dataset_with_gt,
                 nb_seq_with_gt, average_rpe_on_seq, report, printed, gui_thread,
                 pause_button, pause_seen, catalog, eval_values, evals, gate_open,
                 reg_calls, succ_calls, seq_failed, regs_in_pause, save_result,
                 last, done_names, gt_names, zero_division>>

\* Lines 314-319: the abort on a failed registration.
AbortOnFrameFailure ==
    /\ pc = "abort_frame"
    /\ IF JoinOnFrameFailure THEN Join ELSE UNCHANGED gui_thread
    /\ Exit(1)
    /\ UNCHANGED <<options, sequences, num_sequences, i, it_len, it_pos, frame, frame_id,
                 summary, odometry, avg_number_of_attempts, trajectory,
                 sequence_name_to_errors, metrics_file, dataset_with_gt,
                 nb_seq_with_gt, average_rpe_on_seq, report, printed, pause_button,
                 pause_seen, catalog, eval_values, evals, gate_open, reg_calls,
                 succ_calls, seq_failed, regs_in_pause, save_result, last,
                 done_names, gt_names, zero_division>>

\* Line 327.
Average ==
    /\ pc = "average"
    /\ avg_number_of_attempts' = [avg_number_of_attempts EXCEPT !.den = frame_id]
    /\ zero_division' = (zero_division \/ frame_id = 0)
    /\ pc' = "save"
    /\ UNCHANGED <<options, sequences, num_sequences, exit_code, i, it_len, it_pos, frame,
                 frame_id, summary, odometry, trajectory, sequence_name_to_errors,
                 metrics_file, dataset_with_gt, nb_seq_with_gt, average_rpe_on_seq,
                 report, printed, gui_thread, pause_button, pause_seen, catalog,
                 eval_values, evals, gate_open, reg_calls, succ_calls, seq_failed,
                 regs_in_pause, save_result, last, done_names, gt_names>>

\* Lines 329-353: the trajectory of the sequence, and its two pose files.
SaveTrajectory ==
    /\ pc = "save"
    /\ trajectory' = odometry
    /\ IF options.save_trajectory
       THEN \E saved \in BOOLEAN :
               /\ save_result' = IF saved THEN "ok" ELSE "failed"
               /\ pc' = IF ~saved /\ SaveFailurePolicy = "exit"
                        THEN "abort_save"
                        ELSE "evaluate"
       ELSE /\ pc' = "evaluate"
            /\ UNCHANGED save_result
    /\ UNCHANGED <<options, sequences, num_sequences, exit_code, i, it_len, it_pos, frame,
                 frame_id, summary, odometry, avg_number_of_attempts,
                 sequence_name_to_errors, metrics_file, dataset_with_gt,
                 nb_seq_with_gt, average_rpe_on_seq, report, printed, gui_thread,
                 pause_button, pause_seen, catalog, eval_values, evals, gate_open,
                 reg_calls, succ_calls, seq_failed, regs_in_pause, last, done_names,
                 gt_names, zero_division>>

\* Lines 343-349: the abort on a failed save.
AbortOnSaveFailure ==
    /\ pc = "abort_save"
    /\ IF JoinOnSaveFailure THEN Join ELSE UNCHANGED gui_thread
    /\ Exit(1)
    /\ UNCHANGED <<options, sequences, num_sequences, i, it_len, it_pos, frame, frame_id,
                 summary, odometry, avg_number_of_attempts, trajectory,
                 sequence_name_to_errors, metrics_file, dataset_with_gt,
                 nb_seq_with_gt, average_rpe_on_seq, report, printed, pause_button,
                 pause_seen, catalog, eval_values, evals, gate_open, reg_calls,
                 succ_calls, seq_failed, regs_in_pause, save_result, last,
                 done_names, gt_names, zero_division>>

\* The record of a sequence whose body ends.
Record(has_gt, loaded, gt, est, valid) ==
    [name |-> CurrentName, calls |-> reg_calls, succ |-> succ_calls, failed |-> seq_failed,
     trajectory |-> trajectory, save |-> save_result, has_gt |-> has_gt, loaded |-> loaded,
     eval_gt |-> gt, eval_est |-> est, valid |-> valid]

\* Lines 356-394 with ground truth: evaluation, the mapping, SaveMetrics; then ++i.
EvaluateWithGroundTruth ==
    /\ pc = "evaluate"
    /\ \E n \in 0 .. MaxFrames :
       \E fill \in IF n < Len(trajectory) THEN Uninitialized ELSE {<<"uninit", 0>>} :
          LET loaded == load_ground_truth(n)
              est == transform_trajectory_frame(trajectory)
              valid == valid_trajectory(loaded, est)
              gt == IF ~valid THEN resize(loaded, Len(est), fill) ELSE loaded
          IN  \E seq_error \in eval(gt, est) :
              LET errors == [n2 \in DOMAIN sequence_name_to_errors \cup {CurrentName} |->
                                IF n2 = CurrentName THEN seq_error
                                ELSE sequence_name_to_errors[n2]]
              IN  /\ dataset_with_gt' = TRUE
                  /\ nb_seq_with_gt' = nb_seq_with_gt + 1
                  /\ average_rpe_on_seq' = average_rpe_on_seq + seq_error.mean_rpe
                  /\ sequence_name_to_errors' = errors
                  /\ metrics_file' = SaveMetrics(errors, valid)
                  /\ evals' = Append(evals, [name |-> CurrentName, seq_error |-> seq_error])
                  /\ last' = Record(TRUE, loaded, gt, est, valid)
    /\ gt_names' = gt_names \cup {CurrentName}
    /\ done_names' = done_names \cup {CurrentName}
    /\ EndOfBody
    /\ UNCHANGED <<options, sequences, num_sequences, exit_code, frame, summary, odometry,
                 report, printed, gui_thread, pause_button, pause_seen, catalog,
                 eval_values, gate_open, reg_calls, succ_calls, seq_failed,
                 regs_in_pause, save_result, zero_division>>

\* Line 357 without ground truth: nothing is evaluated; then ++i.
SkipEvaluation ==
    /\ pc = "evaluate"
    /\ last' = Record(FALSE, <<>>, <<>>, <<>>, FALSE)
    /\ done_names' = done_names \cup {CurrentName}
    /\ EndOfBody
    /\ UNCHANGED <<options, sequences, num_sequences, exit_code, frame, summary, odometry,
                 sequence_name_to_errors, metrics_file, dataset_with_gt,
                 nb_seq_with_gt, average_rpe_on_seq, report, printed, gui_thread,
                 pause_button, pause_seen, catalog, eval_values, evals, gate_open,
                 reg_calls, succ_calls, seq_failed, regs_in_pause, save_result,
                 gt_names, zero_division>>

\* Lines 240 and 397-416: the sequence loop ends; the final summary.
FinalSummary ==
    /\ pc = "for"
    /\ ~(i < num_sequences)
    /\ printed' = SummaryLines
    /\ report' = IF dataset_with_gt
                 THEN [kitti |-> KittiMetric(sequence_name_to_errors), rpe |-> AverageRpe]
                 ELSE report
    /\ pc' = "join_end"
    /\ UNCHANGED <<options, sequences, num_sequences, exit_code, i, it_len, it_pos, frame,
                 frame_id, summary, odometry, avg_number_of_attempts, trajectory,
                 sequence_name_to_errors, metrics_file, dataset_with_gt,
                 nb_seq_with_gt, average_rpe_on_seq, gui_thread, pause_button,
                 pause_seen, catalog, eval_values, evals, gate_open, reg_calls,
                 succ_calls, seq_failed, regs_in_pause, save_result, last,
                 done_names, gt_names, zero_division>>

\* Lines 418-424.
ReturnFromMain ==
    /\ pc = "join_end"
    /\ IF JoinAtEnd THEN Join ELSE UNCHANGED gui_thread
    /\ Exit(0)
    /\ UNCHANGED <<options, sequences, num_sequences, i, it_len, it_pos, frame, frame_id,
                 summary, odometry, avg_number_of_attempts, trajectory,
                 sequence_name_to_errors, metrics_file, dataset_with_gt,
                 nb_seq_with_gt, average_rpe_on_seq, report, printed, pause_button,
                 pause_seen, catalog, eval_values, evals, gate_open, reg_calls,
                 succ_calls, seq_failed, regs_in_pause, save_result, last,
                 done_names, gt_names, zero_division>>

----------------------------------------------------------------------------
\* The GUI thread: viz::ExplorationEngine::LaunchMainLoop

\* Lines 33-35: the checkbox of the control window is clicked.
DrawContent ==
    /\ gui_thread = "running"
    /\ exit_code = -1
    /\ pause_button' = ~pause_button
    /\ UNCHANGED <<options, sequences, num_sequences, pc, exit_code, i, it_len, it_pos,
                 frame, frame_id, summary, odometry, avg_number_of_attempts,
                 trajectory, sequence_name_to_errors, metrics_file, dataset_with_gt,
                 nb_seq_with_gt, average_rpe_on_seq, report, printed, gui_thread,
                 pause_seen, catalog, eval_values, evals, gate_open, reg_calls,
                 succ_calls, seq_failed, regs_in_pause, save_result, last,
                 done_names, gt_names, zero_division>>

\* Line 41: pause_button is a plain bool; a store to it reaches main()'s loads later.
StoreVisible ==
    /\ exit_code = -1
    /\ pause_seen # pause_button
    /\ pause_seen' = pause_button
    /\ regs_in_pause' = 0
    /\ UNCHANGED <<options, sequences, num_sequences, pc, exit_code, i, it_len, it_pos,
                 frame, frame_id, summary, odometry, avg_number_of_attempts,
                 trajectory, sequence_name_to_errors, metrics_file, dataset_with_gt,
                 nb_seq_with_gt, average_rpe_on_seq, report, printed, gui_thread,
                 pause_button, catalog, eval_values, evals, gate_open, reg_calls,
                 succ_calls, seq_failed, save_result, last, done_names, gt_names,
                 zero_division>>

----------------------------------------------------------------------------
Next ==
    \/ SelectSequences
    \/ LaunchGui
    \/ BeginSequence
    \/ WhileTest
    \/ Acquire
    \/ Register
    \/ PublishViz
    \/ GateRead
    \/ GateSleep
    \/ CheckFailure
    \/ AbortOnFrameFailure
    \/ Average
    \/ SaveTrajectory
    \/ AbortOnSaveFailure
    \/ EvaluateWithGroundTruth
    \/ SkipEvaluation
    \/ FinalSummary
    \/ ReturnFromMain
    \/ DrawContent
    \/ StoreVisible

Spec == Init /\ [][Next]_vars

\* The steps of main().
MainThread ==
    \/ SelectSequences
    \/ LaunchGui
    \/ BeginSequence
    \/ WhileTest
    \/ Acquire
    \/ Register
    \/ PublishViz
    \/ GateRead
    \/ GateSleep
    \/ CheckFailure
    \/ AbortOnFrameFailure
    \/ Average
    \/ SaveTrajectory
    \/ AbortOnSaveFailure
    \/ EvaluateWithGroundTruth
    \/ SkipEvaluation
    \/ FinalSummary
    \/ ReturnFromMain

\* main() is a running thread whose calls return: it takes its next step, and the 10 ms
\* sleep of line 304 ends. A store to pause_button reaches main()'s loads in the end:
\* the loop of lines 303-305 calls ContinueSLAM() anew after every sleep.
FairSpec == Spec /\ WF_vars(MainThread) /\ WF_vars(StoreVisible)

\* main() without the viz3d blocks' steps, without a GUI thread and without the aborts.
NextMetrics ==
    \/ SelectSequences
    \/ LaunchGui
    \/ BeginSequence
    \/ WhileTest
    \/ Acquire
    \/ Register
    \/ CheckFailure
    \/ Average
    \/ SaveTrajectory
    \/ EvaluateWithGroundTruth
    \/ SkipEvaluation
    \/ FinalSummary
    \/ ReturnFromMain

SpecMetrics == InitMetrics /\ [][NextMetrics]_vars

----------------------------------------------------------------------------
\* Properties

\* The program points of the frame loop's body after RegisterFrame has returned.
AfterRegister == {"publish", "gate", "sleep", "check"}

\* The program points after the frame loop, inside the sequence loop's body.
AfterLoop == {"average", "save", "abort_save", "evaluate"}

\* The entries of the catalog that options.sequence names.
Matches == { k \in 1 .. Len(catalog) : catalog[k].sequence_name = options.sequence }

\* The configured sequence is none of the catalog.
Unresolved == ~options.all_sequences /\ Matches = {}

\* C1 as stated: no RegisterFrame call begins while pause_button is set.
C1_NoRegisterWhilePaused ==
    [][(pc = "register" /\ pc' # "register") => ~pause_button]_vars

\* C1 as amended: the gate is read after every RegisterFrame call and the loop leaves
\* the polling wait only on reading "continue"; once main() sees the pause set, at most
\* one more RegisterFrame call begins, and after it the loop stays in the polling wait
\* (lines 302-306) for as long as it sees the pause set.
C1_OneFrameThenBlocked ==
    pause_seen =>
        \/ regs_in_pause = 0
        \/ regs_in_pause = 1 /\ pc \in {"publish", "gate", "sleep"}

\* The loop sleeps at the gate, one frame registered since the pause became visible.
C1_Witness == pause_seen /\ regs_in_pause = 1 /\ pc = "sleep"

\* C2: once a RegisterFrame fails under suspend_on_failure, main() only finishes that
\* frame's publish and gate wait and exits with code 1: no frame is acquired or
\* registered again, no later sequence is begun.
C2_SuspendAborts ==
    (options.suspend_on_failure /\ seq_failed) =>
        /\ pc \in AfterRegister \cup {"abort_frame", "exited"}
        /\ reg_calls = succ_calls + 1
        /\ pc = "exited" => exit_code = 1

\* The process has exited on a failed frame, frames and a sequence left unread.
C2_Witness ==
    /\ options.suspend_on_failure /\ seq_failed
    /\ pc = "exited" /\ exit_code = 1
    /\ it_pos < it_len
    /\ i + 1 < num_sequences

\* What C3 says of a failed frame without suspend_on_failure, but for the save: the
\* frame loop ends at that frame, ground truth is evaluated on the partial trajectory,
\* and the run ends only when every sequence has had its turn.
C3_TruncateAndContinue ==
    ~options.suspend_on_failure =>
        /\ seq_failed =>
              /\ pc \in AfterRegister \cup AfterLoop \cup {"for", "join_end", "exited"}
              /\ reg_calls = succ_calls + 1
        /\ (pc = "for" /\ last.failed) =>
              /\ Len(last.trajectory) = last.calls - 1
              /\ last.has_gt =>
                    /\ last.eval_est = transform_trajectory_frame(last.trajectory)
                    /\ last.name \in DOMAIN sequence_name_to_errors
        /\ pc = "exited" =>
              \/ exit_code = 1 /\ Unresolved /\ done_names = {}
              \/ exit_code = 0 /\ i = num_sequences
                    /\ done_names = { sequences[k].sequence_name : k \in 1 .. num_sequences }

\* C3 as stated: the partial trajectory of a failed sequence is saved.
C3_FailedSequenceSaved ==
    /\ C3_TruncateAndContinue
    /\ (~options.suspend_on_failure /\ pc = "for" /\ last.failed) => last.save # "none"

\* C3 as amended: the save of the partial trajectory is attempted exactly when
\* save_trajectory is set.
C3_FailedSequenceSavedIfAsked ==
    /\ C3_TruncateAndContinue
    /\ (~options.suspend_on_failure /\ pc = "for" /\ last.failed) =>
          (last.save # "none" <=> options.save_trajectory)

\* The first of two sequences failed at its second frame, was saved and evaluated, and
\* the sequence loop goes on.
C3_Witness ==
    /\ ~options.suspend_on_failure
    /\ pc = "for" /\ i = 1 /\ num_sequences = 2
    /\ last.failed /\ last.calls = 2
    /\ last.save = "ok" /\ last.has_gt

\* C4: a frame is acquired only while the iterator has a frame and the cap (if any) is
\* not reached; a loop no failure ended stopped because one of the two was false; the
\* RegisterFrame calls of a sequence never exceed a cap >= 0; without a cap and without
\* a failure every frame from the start frame on was registered.
C4_FrameLoopBound ==
    /\ options.max_frames >= 0 => reg_calls <= options.max_frames
    /\ pc = "acquire" =>
          it_pos < it_len /\ (options.max_frames < 0 \/ frame_id < options.max_frames)
    /\ (pc \in AfterLoop /\ ~seq_failed) =>
          /\ ~(it_pos < it_len /\ (options.max_frames < 0 \/ frame_id < options.max_frames))
          /\ options.max_frames < 0 =>
                /\ it_pos >= it_len
                /\ reg_calls = IF it_len > InitFrame THEN it_len - InitFrame ELSE 0

\* The cap of one frame ended the loop over a sequence of two.
C4_Witness ==
    /\ pc = "average" /\ ~seq_failed
    /\ options.max_frames = 1 /\ it_len = 2 /\ it_pos = 1 /\ reg_calls = 1

\* C5: the trajectory read after the frame loop (line 329) has one frame per successful
\* RegisterFrame of the sequence, at most the frames attempted, none if the first failed.
C5_TrajectoryLength ==
    pc \in {"abort_save", "evaluate"} =>
        /\ Len(trajectory) = succ_calls
        /\ succ_calls <= reg_calls
        /\ (seq_failed /\ reg_calls = 1) => trajectory = <<>>

\* A sequence whose second frame failed leaves a trajectory of one frame.
C5_Witness ==
    pc = "evaluate" /\ seq_failed /\ reg_calls = 2 /\ Len(trajectory) = 1

\* C6: line 327 never divides by a frame count of zero.
C6_NoDivisionByZero == ~zero_division

\* C7: with all_sequences false, an options.sequence that names no sequence of the
\* catalog ends the run with exit code 1 before the GUI thread is started and before a
\* frame is acquired; one that names a sequence leaves that sequence alone to be run.
C7_SequenceSelection ==
    (~options.all_sequences /\ pc # "select") =>
        IF Matches = {}
        THEN /\ pc = "exited" /\ exit_code = 1
             /\ gui_thread = "null"
             /\ reg_calls = 0 /\ it_pos = 0 /\ done_names = {}
        ELSE /\ num_sequences = 1
             /\ sequences = <<catalog[CHOOSE k \in Matches : \A m \in Matches : k <= m]>>
             /\ sequences[1].sequence_name = options.sequence
             /\ i <= 1
             /\ done_names \subseteq {options.sequence}

\* The run has ended on a name that none of two sequences has.
C7_Witness ==
    /\ Unresolved /\ Len(catalog) = 2
    /\ pc = "exited" /\ exit_code = 1

\* C8: the process never exits with a GUI thread that was started and not joined.
C8_JoinedBeforeExit == pc = "exited" => gui_thread \in {"null", "joined"}

\* The abort on a failed registration has joined the GUI thread.
C8_Witness ==
    /\ pc = "exited" /\ exit_code = 1
    /\ seq_failed /\ gui_thread = "joined"

\* C9: with ground truth of N poses and an estimate of M poses, M < N, eval is given the
\* first M ground-truth poses, in order, and the M estimated poses, and the flag passed
\* to SaveMetrics is false; with M = N it is given the ground truth as loaded and the
\* flag is true.
C9_TruncatedGroundTruth ==
    (pc = "for" /\ last.has_gt) =>
        LET N == Len(last.loaded)
            M == Len(last.eval_est)
        IN  /\ last.loaded = [k \in 1 .. N |-> <<"gt", k - 1>>]
            /\ last.eval_est = transform_trajectory_frame(last.trajectory)
            /\ M < N => /\ last.eval_gt = [k \in 1 .. M |-> <<"gt", k - 1>>]
                        /\ ~last.valid
                        /\ ~metrics_file.valid_trajectory
            /\ M = N => /\ last.eval_gt = last.loaded
                        /\ last.valid
                        /\ metrics_file.valid_trajectory

\* An estimate of one pose was evaluated against ground truth of two.
C9_Witness ==
    /\ pc = "for" /\ last.has_gt
    /\ Len(last.loaded) = 2 /\ Len(last.eval_est) = 1

\* C10 as stated: when a frame is acquired, the metrics written last hold an entry for
\* every sequence that has completed.
C10_EverySequenceWritten ==
    pc = "acquire" =>
        \A name \in done_names : metrics_file.written /\ name \in DOMAIN metrics_file.errors

\* C10 as amended: when a frame is acquired, the metrics written last hold an entry for
\* every completed sequence that has ground truth, and for no other sequence.
C10_EvaluatedSequencesWritten ==
    pc = "acquire" =>
        /\ DOMAIN metrics_file.errors = gt_names
        /\ gt_names # {} => metrics_file.written

\* The first frame of the second sequence is acquired, the first one evaluated.
C10_Witness ==
    /\ pc = "acquire" /\ i = 1 /\ it_pos = InitFrame
    /\ Cardinality(gt_names) = 1

\* C11: a sequence of the metrics file keeps the validity flag of its own evaluation
\* when a later sequence is evaluated and the file is written again.
C11_OwnFlagKept ==
    [][(metrics_file' # metrics_file) =>
          \A name \in DOMAIN metrics_file.errors \ {CurrentName} :
             ValidityFlag(metrics_file', name) = ValidityFlag(metrics_file, name)]_vars

\* C12 as stated: none of the three lines of the final summary is printed unless a
\* processed sequence had ground truth.
C12_SummaryOnlyWithGroundTruth == printed # {} => gt_names # {}

\* C12 as amended: the KITTI metric and the average RPE are printed only if a processed
\* sequence had ground truth, and then both are; the average registration time is
\* printed by every run that leaves the sequence loop, ground truth or not; nothing of
\* the summary is printed before the loop has ended.
C12_TimeAlwaysPrinted ==
    /\ ("kitti" \in printed \/ "rpe" \in printed) => gt_names # {}
    /\ printed # {} => pc \in {"join_end", "exited"} /\ i = num_sequences
    /\ (pc = "join_end" \/ (pc = "exited" /\ exit_code = 0)) =>
          /\ "time" \in printed
          /\ gt_names # {} => {"kitti", "rpe"} \subseteq printed

\* A run over sequences without ground truth has printed the registration time alone.
C12_Witness ==
    /\ pc = "join_end" /\ done_names # {} /\ gt_names = {}
    /\ printed = {"time"}

\* C13: the average RPE of the final summary is the sum of the mean RPE of the
\* evaluations divided by their number, each counting once whatever its length; the
\* evaluations are those of the sequences with ground truth, a sequence without ground
\* truth adds nothing to the sum or to the count.
C13_UnweightedMean ==
    "rpe" \in printed =>
        /\ { evals[k].name : k \in 1 .. Len(evals) } = gt_names
        /\ report.rpe.den = Len(evals)
        /\ report.rpe.num =
              SumOf([k \in 1 .. Len(evals) |-> evals[k].seq_error.mean_rpe], 1 .. Len(evals))

\* Two sequences with mean RPE 1 and 2, of two frames and of one: the average is 3/2.
C13_Witness ==
    /\ "rpe" \in printed /\ Len(evals) = 2
    /\ evals[1].seq_error.mean_rpe = 1 /\ evals[1].seq_error.num_poses = 2
    /\ evals[2].seq_error.mean_rpe = 2 /\ evals[2].seq_error.num_poses = 1
    /\ report.rpe = [num |-> 3, den |-> 2]

\* The evaluations that the mapping holds at the end: the last one of each name.
LastWritten == { k \in 1 .. Len(evals) : \A j \in k + 1 .. Len(evals) : evals[j].name # evals[k].name }

\* The sum of an error over the segments of the evaluations of ks.
SegmentSum(ks, err) ==
    SumOf([k \in ks |->
              LET tab == evals[k].seq_error.tab_errors
              IN  SumOf([s \in DOMAIN tab |-> IF err = "t_err" THEN tab[s].t_err
                                                ELSE tab[s].r_err], DOMAIN tab)], ks)

\* The number of segments of the evaluations of ks.
SegmentCount(ks) == SumOf([k \in ks |-> Len(evals[k].seq_error.tab_errors)], ks)

\* C14: the KITTI metric of the final summary is the sum of the errors of all segments
\* of all entries of the mapping divided by the number of those segments (the
\* translation in percent); the mapping has an entry for the sequences with ground
\* truth and for no other, and for a name evaluated more than once the entry is its
\* last evaluation.
C14_SegmentWeighted ==
    "kitti" \in printed =>
        /\ DOMAIN sequence_name_to_errors = gt_names
        /\ \A k \in LastWritten : sequence_name_to_errors[evals[k].name] = evals[k].seq_error
        /\ report.kitti.t.num = SegmentSum(LastWritten, "t_err") * 100
        /\ report.kitti.r.num = SegmentSum(LastWritten, "r_err")
        /\ report.kitti.t.den = SegmentCount(LastWritten)
        /\ report.kitti.r.den = SegmentCount(LastWritten)

\* Two segments of error 1 and one segment of error 2: the metric is 4/3, not 3/2.
C14_Witness ==
    /\ "kitti" \in printed /\ Len(evals) = 2 /\ evals[1].name # evals[2].name
    /\ Len(evals[1].seq_error.tab_errors) = 2 /\ evals[1].seq_error.mean_rpe = 1
    /\ Len(evals[2].seq_error.tab_errors) = 1 /\ evals[2].seq_error.mean_rpe = 2
    /\ report.kitti.r = [num |-> 4, den |-> 3]

\* The program points of the sequence loop's body.
InBody == {"while", "acquire", "register", "abort_frame"} \cup AfterRegister \cup AfterLoop

C17_SaveFailure ==
    /\ save_result # "none" => options.save_trajectory
    /\ pc = "abort_save" => options.suspend_on_failure /\ save_result = "failed"
    /\ (save_result = "failed" /\ options.suspend_on_failure) =>
          /\ pc \in {"abort_save", "exited"}
          /\ pc = "exited" => exit_code = 1
    /\ (save_result = "failed" /\ ~options.suspend_on_failure) =>
          /\ pc \in {"evaluate", "for", "join_end", "exited"}
          /\ pc = "exited" =>
                /\ exit_code = 0
                /\ done_names = { sequences[k].sequence_name : k \in 1 .. num_sequences }
    /\ (pc = "for" /\ last.save = "failed" /\ last.has_gt) =>
          /\ last.eval_est = transform_trajectory_frame(last.trajectory)
          /\ metrics_file.written
          /\ last.name \in DOMAIN metrics_file.errors

\* The save of the first of two sequences failed; it was evaluated, the loop goes on.
C17_Witness ==
    /\ ~options.suspend_on_failure
    /\ pc = "for" /\ i = 1 /\ num_sequences = 2
    /\ last.save = "failed" /\ last.has_gt /\ ~last.failed

\* The program points of the polling wait, lines 303-305.
PollingWait == {"gate", "sleep"}

\* C18: without visualization main() never comes to the gate and every run exits; with
\* it, a main() that waits at the gate leaves the wait unless pause_button is set again.
C18_Termination ==
    /\ [](~WithViz => pc \notin PollingWait \cup {"publish"})
    /\ ~WithViz => <>(pc = "exited")
    /\ [](pc \in PollingWait => <>(pc \notin PollingWait \/ pause_button))

\* main() sleeps at the gate on a pause it still sees, the checkbox cleared again.
C18_Witness == WithViz /\ pc = "sleep" /\ pause_seen /\ ~pause_button

\* C19: the iterator starts at start_index in single-sequence mode and at 0 in
\* all-sequences mode, whatever start_index is; frame_id starts at 0 in both and counts
\* the frames registered with success.
C19_StartIndex ==
    pc \in InBody =>
        /\ reg_calls = 0 =>
              /\ frame_id = 0
              /\ pc \in {"while", "acquire"} =>
                    it_pos = IF options.all_sequences THEN 0 ELSE options.start_index
              /\ pc = "register" =>
                    frame = IF options.all_sequences THEN 0 ELSE options.start_index
        /\ pc \notin AfterRegister => frame_id = succ_calls
        /\ frame_id <= reg_calls

\* The first frame of a single sequence is frame 1, the frame counter is 0.
C19_Witness ==
    /\ ~options.all_sequences /\ options.start_index = 1
    /\ pc = "register" /\ reg_calls = 0 /\ frame = 1 /\ frame_id = 0

\* C20 as stated: the failure policy is not applied to a failed frame while
\* pause_button is set.
C20_NoPolicyWhilePaused ==
    [][(WithViz /\ pc = "check" /\ ~summary.success /\ pc' # "check") => ~pause_button]_vars

\* C20 as amended: with visualization the failure policy is applied to a failed frame
\* only after the frame was published and a read of the gate returned "continue"; until
\* then main() is at the publish or in the polling wait, and neither aborts nor leaves
\* the frame loop. A pause set after that read does not hold the policy back.
C20_PolicyAfterGate ==
    WithViz =>
        /\ pc = "check" => gate_open
        /\ (seq_failed /\ ~gate_open) => pc \in {"publish", "gate", "sleep"}
        /\ (seq_failed /\ pc \in {"abort_frame", "exited"} \cup AfterLoop) => gate_open

\* A failed frame waits at the gate on a pause that main() sees.
C20_Witness == WithViz /\ seq_failed /\ pc = "sleep" /\ pause_seen /\ ~gate_open

====
